---- MODULE Spec2Model ----
(***************************************************************************)
(* Checkout of django-oscar-api: CheckoutView.post (views/checkout.py)    *)
(* and CheckoutSerializer (serializers/checkout.py).                      *)
(*                                                                         *)
(* Every POST /checkout is a request that runs through the statements of   *)
(* CheckoutView.post one database operation at a time; requests of         *)
(* different clients interleave between those operations.                  *)
(*                                                                         *)
(* place_order is the one CheckoutSerializer inherits from Oscar's          *)
(* OrderPlacementMixin: it saves the address rows, refuses an order number *)
(* that is taken (ValueError) and writes the order in a transaction under  *)
(* the unique constraint of Order.number (IntegrityError).  The view runs  *)
(* outside any transaction, as Django does by default.                     *)
(*                                                                         *)
(* Amounts are integers (minor currency units); an optional value is the   *)
(* empty sequence (absent, Python None) or a one-element sequence.         *)
(***************************************************************************)
EXTENDS Integers, Sequences, FiniteSets, TLC

\* ---------------------------------------------------------------- bounds
NumReqs == 2
NumBaskets == 2
MaxCand == 2
MaxAmount == 2
NumAddrReqs == 2
MaxAddresses == 2
NumPopupReqs == 2
MaxTime == 4

\* ------------------------------------------------------- optional values
Absent == <<>>
Some(x) == <<x>>
Present(o) == o # <<>>
Val(o) == o[1]

\* ------------------------------------------------------------- universes
Users == {"u1", "u2"}
Anon == "anon"
Actors == Users \cup {Anon}
ReqIds == 1..NumReqs
BasketIds == 1..NumBaskets
Amounts == 0..MaxAmount
OptAmounts == {Absent} \cup {Some(a) : a \in Amounts}
Currencies == {"EUR", "USD"}
Codes == {"A", "B"}
Vehicles == {"v1", "v2"}
Contents == {"home", "work"}
AddressIds == 1..(MaxAddresses + 1)
AddrReqIds == 1..NumAddrReqs

\* django_settings.OSCAR_DEFAULT_CURRENCY, the default of PriceSerializer.currency
OSCAR_DEFAULT_CURRENCY == "EUR"

\* Vehicle.customer.user of the two vehicles
VehicleOwner == [v \in Vehicles |-> IF v = "v1" THEN "u1" ELSE "u2"]

\* ---------------------------------------------------------------- prices
\* prices.Price(currency, excl_tax, incl_tax=None, tax=None): a given incl_tax
\* wins over a given tax; with neither the tax is unknown and incl_tax is None.
Price(currency, excl_tax, incl_tax, tax) ==
  [currency |-> currency,
   excl_tax |-> excl_tax,
   incl_tax |-> IF Present(incl_tax) THEN incl_tax
                ELSE IF Present(tax) THEN Some(excl_tax + Val(tax))
                ELSE Absent]

is_tax_known(p) == Present(p.incl_tax)

\* Price.tax, defined when the tax is known
TaxOf(p) == Val(p.incl_tax) - p.excl_tax

\* Price.__eq__: currency, excl_tax and incl_tax match
PriceEq(p, q) ==
  /\ p.currency = q.currency
  /\ p.excl_tax = q.excl_tax
  /\ p.incl_tax = q.incl_tax

\* PriceSerializer: the validated payload of "shipping_charge".  excl_tax is
\* required; currency falls back to its default; incl_tax and tax are optional.
PricePayloads ==
  [currency : {Absent} \cup {Some(c) : c \in Currencies},
   excl_tax : Amounts,
   incl_tax : OptAmounts,
   tax : OptAmounts]

PriceSerializer(payload) ==
  [currency |-> IF Present(payload.currency) THEN Val(payload.currency)
                ELSE OSCAR_DEFAULT_CURRENCY,
   excl_tax |-> payload.excl_tax,
   incl_tax |-> payload.incl_tax,
   tax |-> payload.tax]

\* prices.Price(**posted_shipping_charge)
PostedPrice(payload) ==
  LET d == PriceSerializer(payload)
  IN Price(d.currency, d.excl_tax, d.incl_tax, d.tax)

\* ------------------------------------------------------ shipping methods
\* shipping_method.calculate(basket)
calculate(method, basket) ==
  Price(basket.currency, method.charge_excl_tax, method.charge_incl_tax, Absent)

\* find_method = (s for s in methods if s.code == shipping_method_code)
find_method(methods, code) ==
  SelectSeq(methods, LAMBDA s : s.code = code)

\* A scan that keeps the last match
next_last(gen, default) == IF Len(gen) > 0 THEN gen[Len(gen)] ELSE default

\* next(find_method, default)
next(gen, default) == IF Len(gen) > 0 THEN Head(gen) ELSE default

\* CheckoutSerializer._shipping_method
_shipping_method(rp, shipping_method_code) ==
  IF Present(shipping_method_code)
  THEN next(find_method(rp.methods, Val(shipping_method_code)), rp.default)
  ELSE rp.default

\* OrderTotalCalculator().calculate(basket, shipping_charge)
OrderTotal(basket, shipping_charge) ==
  Price(basket.currency,
        basket.total_excl_tax + shipping_charge.excl_tax,
        IF Present(basket.total_incl_tax) /\ is_tax_known(shipping_charge)
        THEN Some(Val(basket.total_incl_tax) + Val(shipping_charge.incl_tax))
        ELSE Absent,
        Absent)

\* ------------------------------------------------------------ validation
Failure(kind, posted, computed) ==
  [ok |-> FALSE, error |-> kind, posted |-> posted, computed |-> computed,
   data |-> Absent]

\* The anonymous gate with the setting read the wrong way round
anonymous_forbidden_inverted(actor, allowAnon) == actor = Anon /\ allowAnon

\* if request.user.is_anonymous: if not OSCAR_ALLOW_ANON_CHECKOUT: raise
anonymous_forbidden(actor, allowAnon) == actor = Anon /\ ~allowAnon

\* The empty basket gate with a strict comparison
empty_basket_strict(basket) == basket.num_items < 0

\* if basket.num_items <= 0: raise
empty_basket(basket) == basket.num_items <= 0

\* if posted_shipping_charge is not None:
\*     if not Price(**posted_shipping_charge) == shipping_charge: raise
shipping_charge_incorrect(posted_shipping_charge, shipping_charge) ==
  /\ Present(posted_shipping_charge)
  /\ ~PriceEq(PostedPrice(Val(posted_shipping_charge)), shipping_charge)

\* The total check against the amount without tax
total_incorrect_excl_tax(posted_total, total) ==
  Present(posted_total) /\ posted_total # Some(total.excl_tax)

\* if posted_total is not None: if posted_total != total.incl_tax: raise
total_incorrect(posted_total, total) ==
  Present(posted_total) /\ posted_total # total.incl_tax

\* The vehicle check that lets a request without a user id through
vehicle_not_owned_users_only(vehicle, actor) ==
  Present(vehicle) /\ actor # Anon /\ VehicleOwner[Val(vehicle)] # actor

\* if vehicle and vehicle.customer.user.id != request.user.id: raise
vehicle_not_owned(vehicle, actor) ==
  Present(vehicle) /\ VehicleOwner[Val(vehicle)] # actor

\* Validated data that keeps the posted shipping charge
validated_data_keeps_posted(attrs, total, shipping_method, shipping_charge) ==
  [basket |-> attrs.basket,
   order_total |-> total,
   shipping_method |-> shipping_method,
   shipping_charge |-> IF Present(attrs.shipping_charge)
                       THEN PriceSerializer(Val(attrs.shipping_charge))
                       ELSE shipping_charge,
   shipping_address |-> attrs.shipping_address,
   billing_address |-> attrs.billing_address,
   vehicle |-> attrs.vehicle,
   guest_email |-> attrs.guest_email]

\* "update attrs with validated data": the computed total, method, charge
\* and the basket replace what the client sent
validated_data(attrs, total, shipping_method, shipping_charge) ==
  [basket |-> attrs.basket,
   order_total |-> total,
   shipping_method |-> shipping_method,
   shipping_charge |-> shipping_charge,
   shipping_address |-> attrs.shipping_address,
   billing_address |-> attrs.billing_address,
   vehicle |-> attrs.vehicle,
   guest_email |-> attrs.guest_email]

\* A validation that checks the total before the shipping charge
validate_total_first(actor, attrs, basket, rp, anonAllowed) ==
  LET shipping_method == _shipping_method(rp, attrs.shipping_method_code)
      shipping_charge == calculate(shipping_method, basket)
      total == OrderTotal(basket, shipping_charge)
  IN
  IF anonymous_forbidden(actor, anonAllowed)
  THEN Failure("anonymous_forbidden", Absent, Absent)
  ELSE IF empty_basket(basket)
  THEN Failure("empty_basket", Absent, Absent)
  ELSE IF total_incorrect(attrs.total, total)
  THEN Failure("total_incorrect", attrs.total, total.incl_tax)
  ELSE IF shipping_charge_incorrect(attrs.shipping_charge, shipping_charge)
  THEN Failure("shipping_price_incorrect",
               Some(PostedPrice(Val(attrs.shipping_charge))), Some(shipping_charge))
  ELSE IF vehicle_not_owned(attrs.vehicle, actor)
  THEN Failure("vehicle_not_owned", Absent, Absent)
  ELSE [ok |-> TRUE, error |-> "", posted |-> Absent, computed |-> Absent,
        data |-> Some(validated_data(attrs, total, shipping_method,
                                     shipping_charge))]

\* CheckoutSerializer.validate(attrs) for the request of `actor`; `basket` is
\* the row attrs["basket"] names, `rp` the answers of the shipping repository.
validate(actor, attrs, basket, rp, anonAllowed) ==
  LET shipping_method == _shipping_method(rp, attrs.shipping_method_code)
      shipping_charge == calculate(shipping_method, basket)
      total == OrderTotal(basket, shipping_charge)
  IN
  IF anonymous_forbidden(actor, anonAllowed)
  THEN Failure("anonymous_forbidden", Absent, Absent)
  ELSE IF empty_basket(basket)
  THEN Failure("empty_basket", Absent, Absent)
  ELSE IF shipping_charge_incorrect(attrs.shipping_charge, shipping_charge)
  THEN Failure("shipping_price_incorrect",
               Some(PostedPrice(Val(attrs.shipping_charge))), Some(shipping_charge))
  ELSE IF total_incorrect(attrs.total, total)
  THEN Failure("total_incorrect", attrs.total, total.incl_tax)
  ELSE IF vehicle_not_owned(attrs.vehicle, actor)
  THEN Failure("vehicle_not_owned", Absent, Absent)
  ELSE [ok |-> TRUE, error |-> "", posted |-> Absent, computed |-> Absent,
        data |-> Some(validated_data(attrs, total, shipping_method,
                                     shipping_charge))]

\* --------------------------------------------------------------- state
VARIABLES
  allowAnon,   \* django_settings.OSCAR_ALLOW_ANON_CHECKOUT
  repo,        \* what Repository() answers: the ordered methods and the default
  baskets,     \* Basket rows
  orders,      \* Order rows (with their lines)
  addresses,   \* ShippingAddress and BillingAddress rows
  signals,     \* oscarapi_post_checkout events sent so far
  reqs,        \* the POST /checkout requests in flight
  userAddresses, \* UserAddress rows
  addrNext,    \* the next primary key of a UserAddress row
  nullNames,   \* UserAddress.address_name of a row saved without one is NULL
  areqs,       \* the /addresses/ requests in flight, one per client
  placedOrders, \* Order rows, with the columns the order views read
  orderLines,  \* OrderLine rows
  now,         \* timezone.now(), in half hours
  preqs,       \* the rating popup requests in flight, one per client
  delivered,   \* how often each order was returned as a rating popup
  listing      \* the last answer of the order and order line views

vars == <<allowAnon, repo, baskets, orders, addresses, signals, reqs,
          userAddresses, addrNext, nullNames, areqs,
          placedOrders, orderLines, now, preqs, delivered, listing>>

\* The state of the order views
readVars == <<placedOrders, orderLines, now, preqs, delivered, listing>>

\* The state of the address views
addrVars == <<userAddresses, addrNext, nullNames, areqs>>

NoAttrs ==
  [basket |-> 1, guest_email |-> Absent, total |-> Absent,
   shipping_method_code |-> Absent, shipping_charge |-> Absent,
   shipping_address |-> Absent, billing_address |-> Absent, vehicle |-> Absent]

IdleReq ==
  [pc |-> "idle", user |-> Anon, session |-> Absent, attrs |-> NoAttrs,
   result |-> Absent, ship |-> Absent, bill |-> Absent, order |-> Absent,
   status |-> 0, raised |-> "", late |-> FALSE]

\* Basket rows: emptiness, totals and tax knowledge
EmptyBasket ==
  [num_items |-> 0, total_excl_tax |-> 0, total_incl_tax |-> Some(0)]
OneItemBasket ==
  [num_items |-> 1, total_excl_tax |-> 1, total_incl_tax |-> Some(1)]
UntaxedBasket ==
  [num_items |-> 2, total_excl_tax |-> 2, total_incl_tax |-> Absent]
BasketShapes == {EmptyBasket, OneItemBasket, UntaxedBasket}

BasketOwner(b) == IF b = 1 THEN "u1" ELSE IF b = 2 THEN Anon ELSE "u2"

BasketRow(b, shape) ==
  [id |-> b, owner |-> BasketOwner(b), status |-> "Open",
   currency |-> OSCAR_DEFAULT_CURRENCY, num_items |-> shape.num_items,
   total_excl_tax |-> shape.total_excl_tax,
   total_incl_tax |-> shape.total_incl_tax]

TaxedMethod ==
  [code |-> "A", name |-> "m1", charge_excl_tax |-> 1, charge_incl_tax |-> Some(2)]
UntaxedMethod ==
  [code |-> "B", name |-> "m2", charge_excl_tax |-> 1, charge_incl_tax |-> Absent]

\* The anonymous baskets a session can hold
SessionBaskets == {Absent} \cup {Some(b) : b \in {c \in BasketIds : BasketOwner(c) = Anon}}

\* ------------------------------------------------------- the operations
\* request_allows_access_to_basket(request, basket): the owner, or the
\* anonymous basket of the request's session
request_allows_access_to_basket(q, basket) ==
  IF q.user \in Users
  THEN basket.owner = q.user
  ELSE basket.owner = Anon /\ q.session = Some(basket.id)

\* A numbering that is not stable for one basket
generate_order_number_unstable(basket) ==
  100000 + basket.id + (IF basket.status = "Frozen" THEN NumBaskets ELSE 0)

\* self.generate_order_number(basket)
generate_order_number(basket) == 100000 + basket.id

\* A checkout of basket b has succeeded: its order exists and b is frozen
Placed(b) ==
  /\ baskets[b].status = "Frozen"
  /\ \E o \in orders : o.basket = b

\* A client sends POST /checkout; the view parses the basket hyperlink.
\* `late` records that the request arrived after a checkout of its basket
\* had succeeded.
Submit(r, U, A) ==
  /\ reqs[r].pc = "idle"
  /\ \E u \in U, s \in SessionBaskets, a \in A :
       /\ u \in Users => s = Absent
       /\ reqs' = [reqs EXCEPT ![r] =
                     [IdleReq EXCEPT !.pc = "access", !.user = u,
                                     !.session = s, !.attrs = a,
                                     !.late = Placed(a.basket)]]
  /\ UNCHANGED <<readVars, addrVars, allowAnon, repo, baskets, orders, addresses, signals>>

\* A view that validates without the access check
AccessCheck_skipped(r) ==
  /\ reqs[r].pc = "access"
  /\ reqs' = [reqs EXCEPT ![r].pc = "is_valid"]
  /\ UNCHANGED <<readVars, addrVars, allowAnon, repo, baskets, orders, addresses, signals>>

\* if not request_allows_access_to_basket(request, basket): 401
AccessCheck(r) ==
  /\ reqs[r].pc = "access"
  /\ reqs' = [reqs EXCEPT ![r] =
       IF request_allows_access_to_basket(reqs[r], baskets[reqs[r].attrs.basket])
       THEN [@ EXCEPT !.pc = "is_valid"]
       ELSE [@ EXCEPT !.pc = "done", !.status = 401]]
  /\ UNCHANGED <<readVars, addrVars, allowAnon, repo, baskets, orders, addresses, signals>>

\* A validation that converts the basket it prices to another currency
IsValid_converts_basket(r) ==
  /\ reqs[r].pc = "is_valid"
  /\ LET q == reqs[r]
         res == validate(q.user, q.attrs, baskets[q.attrs.basket], repo, allowAnon)
     IN /\ reqs' = [reqs EXCEPT ![r] =
             IF res.ok
             THEN [@ EXCEPT !.pc = "save", !.result = Some(res)]
             ELSE [@ EXCEPT !.pc = "done", !.status = 406, !.result = Some(res)]]
        /\ baskets' = [baskets EXCEPT ![q.attrs.basket].currency = "USD"]
  /\ UNCHANGED <<readVars, addrVars, allowAnon, repo, orders, addresses, signals>>

\* A view that freezes the basket of an intent it rejects
IsValid_freezes_rejected(r) ==
  /\ reqs[r].pc = "is_valid"
  /\ LET q == reqs[r]
         res == validate(q.user, q.attrs, baskets[q.attrs.basket], repo, allowAnon)
     IN /\ reqs' = [reqs EXCEPT ![r] =
             IF res.ok
             THEN [@ EXCEPT !.pc = "save", !.result = Some(res)]
             ELSE [@ EXCEPT !.pc = "done", !.status = 406, !.result = Some(res)]]
        /\ baskets' = IF res.ok THEN baskets
                      ELSE [baskets EXCEPT ![q.attrs.basket].status = "Frozen"]
  /\ UNCHANGED <<readVars, addrVars, allowAnon, repo, orders, addresses, signals>>

\* c_ser.is_valid(): runs validate; invalid data is answered 406
IsValid(r) ==
  /\ reqs[r].pc = "is_valid"
  /\ LET q == reqs[r]
         res == validate(q.user, q.attrs, baskets[q.attrs.basket], repo, allowAnon)
     IN reqs' = [reqs EXCEPT ![r] =
          IF res.ok
          THEN [@ EXCEPT !.pc = "save", !.result = Some(res)]
          ELSE [@ EXCEPT !.pc = "done", !.status = 406, !.result = Some(res)]]
  /\ UNCHANGED <<readVars, addrVars, allowAnon, repo, baskets, orders, addresses, signals>>
\* create_shipping_address: if user.is_authenticated, update_address_book
\* copies a shipping address that the user's address book does not hold
\* into a new UserAddress row, which is not a default.
update_address_book(user, shipping_address) ==
  IF /\ user \in Users
     /\ Present(shipping_address)
     /\ ~\E a \in userAddresses :
           a.user = user /\ a.content = Val(shipping_address)
  THEN {[id |-> addrNext, user |-> user, content |-> Val(shipping_address),
         is_default_for_shipping |-> FALSE]}
  ELSE {}

\* order = c_ser.save() -> create -> place_order, first part: the unsaved
\* ShippingAddress/BillingAddress built from the payloads are saved.
PlaceOrderAddresses(r) ==
  /\ reqs[r].pc = "save"
  /\ LET q == reqs[r]
         vd == Val(q.result).data[1]
         n == Cardinality(addresses)
         ship == IF Present(vd.shipping_address)
                 THEN {[id |-> n + 1, kind |-> "shipping", req |-> r,
                        content |-> Val(vd.shipping_address)]}
                 ELSE {}
         bill == IF Present(vd.billing_address)
                 THEN {[id |-> n + 2, kind |-> "billing", req |-> r,
                        content |-> Val(vd.billing_address)]}
                 ELSE {}
         book == update_address_book(q.user, vd.shipping_address)
     IN /\ addresses' = addresses \cup ship \cup bill
        /\ userAddresses' = userAddresses \cup book
        /\ addrNext' = addrNext + Cardinality(book)
        /\ reqs' = [reqs EXCEPT ![r] =
             [@ EXCEPT !.pc = "place_check",
                       !.ship = IF ship = {} THEN Absent ELSE Some(n + 1),
                       !.bill = IF bill = {} THEN Absent ELSE Some(n + 2)]]
  /\ UNCHANGED <<readVars, nullNames, areqs, allowAnon, repo, baskets, orders, signals>>

\* place_order, second part: an empty basket or an order number that is
\* already taken raises ValueError, which create turns into NotAcceptable.
PlaceOrderCheck(r) ==
  /\ reqs[r].pc = "place_check"
  /\ LET q == reqs[r]
         basket == baskets[q.attrs.basket]
         order_number == generate_order_number(basket)
     IN reqs' = [reqs EXCEPT ![r] =
          IF \/ basket.num_items = 0
             \/ \E o \in orders : o.number = order_number
          THEN [@ EXCEPT !.pc = "done", !.status = 406, !.raised = "ValueError"]
          ELSE [@ EXCEPT !.pc = "place_insert"]]
  /\ UNCHANGED <<readVars, addrVars, allowAnon, repo, baskets, orders, addresses, signals>>

\* A placement whose insert does not enforce the unique order number
PlaceOrderInsert_no_unique(r) ==
  /\ reqs[r].pc = "place_insert"
  /\ LET q == reqs[r]
         vd == Val(q.result).data[1]
         basket == baskets[q.attrs.basket]
         order_number == generate_order_number(basket)
     IN /\ orders' = orders \cup
             {[number |-> order_number, basket |-> basket.id,
               user |-> q.user, guest_email |-> vd.guest_email,
               shipping_address |-> q.ship, billing_address |-> q.bill,
               shipping_method |-> vd.shipping_method,
               shipping_charge |-> vd.shipping_charge,
               total |-> vd.order_total, vehicle |-> vd.vehicle,
               lines |-> basket.num_items, req |-> r]}
        /\ reqs' = [reqs EXCEPT ![r] =
             [@ EXCEPT !.pc = "freeze", !.order = Some(order_number)]]
  /\ UNCHANGED <<readVars, addrVars, allowAnon, repo, baskets, addresses, signals>>

\* place_order, last part: the order and its lines are written in one
\* transaction; Order.number is unique, a duplicate raises IntegrityError,
\* which create does not catch.
PlaceOrderInsert(r) ==
  /\ reqs[r].pc = "place_insert"
  /\ LET q == reqs[r]
         vd == Val(q.result).data[1]
         basket == baskets[q.attrs.basket]
         order_number == generate_order_number(basket)
     IN IF \E o \in orders : o.number = order_number
        THEN /\ reqs' = [reqs EXCEPT ![r] =
                  [@ EXCEPT !.pc = "done", !.status = 500,
                            !.raised = "IntegrityError"]]
             /\ UNCHANGED orders
        ELSE /\ orders' = orders \cup
                  {[number |-> order_number, basket |-> basket.id,
                    user |-> q.user, guest_email |-> vd.guest_email,
                    shipping_address |-> q.ship, billing_address |-> q.bill,
                    shipping_method |-> vd.shipping_method,
                    shipping_charge |-> vd.shipping_charge,
                    total |-> vd.order_total, vehicle |-> vd.vehicle,
                    lines |-> basket.num_items, req |-> r]}
             /\ reqs' = [reqs EXCEPT ![r] =
                  [@ EXCEPT !.pc = "freeze", !.order = Some(order_number)]]
  /\ UNCHANGED <<readVars, addrVars, allowAnon, repo, baskets, addresses, signals>>

\* basket.freeze()
Freeze(r) ==
  /\ reqs[r].pc = "freeze"
  /\ baskets' = [baskets EXCEPT ![reqs[r].attrs.basket].status = "Frozen"]
  /\ reqs' = [reqs EXCEPT ![r].pc = "respond"]
  /\ UNCHANGED <<readVars, addrVars, allowAnon, repo, orders, addresses, signals>>

\* A view that answers 200 without sending the event
Respond_silent(r) ==
  /\ reqs[r].pc = "respond"
  /\ reqs' = [reqs EXCEPT ![r] = [@ EXCEPT !.pc = "done", !.status = 200]]
  /\ UNCHANGED <<readVars, addrVars, allowAnon, repo, baskets, orders, addresses, signals>>

\* oscarapi_post_checkout.send(...); return resp
Respond(r) ==
  /\ reqs[r].pc = "respond"
  /\ signals' = Append(signals, [order |-> Val(reqs[r].order),
                                 user |-> reqs[r].user, request |-> r])
  /\ reqs' = [reqs EXCEPT ![r] = [@ EXCEPT !.pc = "done", !.status = 200]]
  /\ UNCHANGED <<readVars, addrVars, allowAnon, repo, baskets, orders, addresses>>

\* ---------------------------------------------------- the address views
\* The checkout state, which no address view touches
checkoutVars == <<allowAnon, repo, baskets, orders, addresses, signals, reqs>>

\* The raw is_default_for_shipping of request.data: absent, a JSON boolean,
\* or the string "false" of a form
RawFlags == {Absent, Some("true"), Some("false"), Some("str_false")}

\* Python truth of the raw value: every non-empty string is true
truthy(raw) == Present(raw) /\ raw # Some("false")

\* BooleanField.to_internal_value of the raw value
to_internal_value(raw) == raw = Some("true")

NoInstance ==
  [id |-> 0, user |-> Anon, content |-> "home", is_default_for_shipping |-> FALSE]

IdleAddrReq ==
  [pc |-> "idle", op |-> "", user |-> Anon, instance |-> NoInstance,
   valid |-> TRUE, status |-> 0]

\* The database after construction: no UserAddress row, no request
InitAddresses(N) ==
  /\ userAddresses = {}
  /\ addrNext = 1
  /\ nullNames \in N
  /\ areqs = [s \in AddrReqIds |-> IdleAddrReq]

\* UserAddress.objects.filter(user=user)
AddressesOf(user) == {a \in userAddresses : a.user = user}

\* UserAddress.objects.filter(user=user, is_default_for_shipping=True)
\*            .update(is_default_for_shipping=False)
unset_defaults(user) ==
  {IF a.user = user THEN [a EXCEPT !.is_default_for_shipping = FALSE] ELSE a :
     a \in userAddresses}

\* The answer of a finished request; the client is free for the next one
Answer(s, status) ==
  [areqs EXCEPT ![s] = [IdleAddrReq EXCEPT !.status = status]]

\* The address_name of a payload: absent, or a name
AddressNames == {Absent, Some(""), Some("n1")}

\* serializer.validated_data.get('address_name'): UserAddressSerializer does
\* not declare the field, the posted name is dropped and the result is None
validated_address_name(posted) == Absent

\* The address_name column of a stored row: serializer.save(user=user) does
\* not write it, every row holds the default of the column, NULL or ''
stored_address_name(a) == IF nullNames THEN Absent ELSE Some("")

\* permission_classes = [IsAuthenticated]: a request without a user is
\* refused before the view touches a row
NotAuthenticated(s) ==
  /\ areqs[s].pc = "idle"
  /\ areqs' = [areqs EXCEPT ![s] =
       [IdleAddrReq EXCEPT !.status = 403]]
  /\ UNCHANGED <<readVars, checkoutVars, userAddresses, addrNext, nullNames>>

\* POST /addresses/: create validates the payload (400), perform_create
\* looks for an address of that name (validated_data has no address_name,
\* the serializer does not declare it, so it looks for the name NULL) and
\* then unsets the defaults if the new address is a default.
perform_create(s, U, C, F, V) ==
  /\ areqs[s].pc = "idle"
  /\ addrNext <= MaxAddresses
  /\ \E user \in U, content \in C, raw \in F, valid \in V,
        posted \in AddressNames :
       LET is_default_for_shipping == to_internal_value(raw)
           address_name == validated_address_name(posted)
           new == [id |-> 0, user |-> user, content |-> content,
                   is_default_for_shipping |-> is_default_for_shipping]
       IN areqs' = [areqs EXCEPT ![s] =
            IF ~valid \/ (\E a \in AddressesOf(user) :
                            stored_address_name(a) = address_name)
            THEN [IdleAddrReq EXCEPT !.status = 400]
            ELSE [IdleAddrReq EXCEPT !.op = "create", !.user = user,
                                     !.instance = new,
                                     !.pc = IF is_default_for_shipping
                                            THEN "unset" ELSE "integrity"]]
  /\ UNCHANGED <<readVars, checkoutVars, userAddresses, addrNext, nullNames>>

\* PUT/PATCH /addresses/<pk>/: get_object over the user's addresses (404),
\* the raw flag decides whether the defaults are unset; the payload is
\* validated after that.
UserAddressDetailView_update(s, U, C, F, V) ==
  /\ areqs[s].pc = "idle"
  /\ \E user \in U, pk \in AddressIds, content \in C,
        raw \in F, valid \in V :
       areqs' = [areqs EXCEPT ![s] =
         IF \E a \in AddressesOf(user) : a.id = pk
         THEN LET instance == CHOOSE a \in AddressesOf(user) : a.id = pk
                  updated == [instance EXCEPT
                                !.content = content,
                                !.is_default_for_shipping =
                                   IF Present(raw) THEN to_internal_value(raw)
                                   ELSE @]
              IN IF ~truthy(raw) /\ ~valid
                 THEN [IdleAddrReq EXCEPT !.status = 400]
                 ELSE [IdleAddrReq EXCEPT
                         !.op = "update", !.user = user, !.valid = valid,
                         !.instance = IF valid THEN updated ELSE instance,
                         !.pc = IF truthy(raw) THEN "unset" ELSE "integrity"]
         ELSE [IdleAddrReq EXCEPT !.status = 404]]
  /\ UNCHANGED <<readVars, checkoutVars, userAddresses, addrNext, nullNames>>

\* DELETE /addresses/<pk>/: get_object over the user's addresses (404)
destroy(s, U) ==
  /\ areqs[s].pc = "idle"
  /\ \E user \in U, pk \in AddressIds :
       areqs' = [areqs EXCEPT ![s] =
         IF \E a \in AddressesOf(user) : a.id = pk
         THEN [IdleAddrReq EXCEPT
                 !.op = "destroy", !.user = user, !.pc = "delete",
                 !.instance = CHOOSE a \in AddressesOf(user) : a.id = pk]
         ELSE [IdleAddrReq EXCEPT !.status = 404]]
  /\ UNCHANGED <<readVars, checkoutVars, userAddresses, addrNext, nullNames>>

\* perform_destroy: was_default is read from the loaded instance, then
\* instance.delete()
perform_destroy_delete(s) ==
  /\ areqs[s].pc = "delete"
  /\ userAddresses' = {a \in userAddresses : a.id # areqs[s].instance.id}
  /\ areqs' = IF areqs[s].instance.is_default_for_shipping
              THEN [areqs EXCEPT ![s].pc = "promote"]
              ELSE Answer(s, 204)
  /\ UNCHANGED <<readVars, checkoutVars, addrNext, nullNames>>

\* A promotion that saves the first address without the default flag
perform_destroy_promote_unflagged(s) ==
  /\ areqs[s].pc = "promote"
  /\ IF AddressesOf(areqs[s].user) = {}
     THEN areqs' = Answer(s, 204)
     ELSE \E first_address \in AddressesOf(areqs[s].user) :
            areqs' = [areqs EXCEPT ![s] =
              [@ EXCEPT !.pc = "integrity", !.instance = first_address]]
  /\ UNCHANGED <<readVars, checkoutVars, userAddresses, addrNext, nullNames>>

\* perform_destroy: first_address = filter(user=user).first(), in the order
\* of the table, which several rows can share; it becomes the default
perform_destroy_promote(s) ==
  /\ areqs[s].pc = "promote"
  /\ IF AddressesOf(areqs[s].user) = {}
     THEN areqs' = Answer(s, 204)
     ELSE \E first_address \in AddressesOf(areqs[s].user) :
            areqs' = [areqs EXCEPT ![s] =
              [@ EXCEPT !.pc = "integrity",
                        !.instance = [first_address EXCEPT
                                        !.is_default_for_shipping = TRUE]]]
  /\ UNCHANGED <<readVars, checkoutVars, userAddresses, addrNext, nullNames>>

\* PUT/PATCH /addresses/<pk>/set-default/: get_object over the addresses of
\* all users (queryset = UserAddress.objects.all()); a type other than
\* shipping and billing is answered 400.  The billing flag is a column of
\* its own that the rows here do not carry: that branch saves the loaded
\* instance as it is.
SetDefaultAddressView_update(s, U, T) ==
  /\ areqs[s].pc = "idle"
  /\ \E user \in U, pk \in AddressIds, type \in T :
       areqs' = [areqs EXCEPT ![s] =
         IF \E a \in userAddresses : a.id = pk
         THEN LET address == CHOOSE a \in userAddresses : a.id = pk
              IN IF type = "shipping"
                 THEN [IdleAddrReq EXCEPT
                         !.op = "set_default", !.user = user, !.pc = "unset",
                         !.instance = [address EXCEPT
                                         !.is_default_for_shipping = TRUE]]
                 ELSE IF type = "billing"
                 THEN [IdleAddrReq EXCEPT
                         !.op = "set_default", !.user = user,
                         !.pc = "integrity", !.instance = address]
                 ELSE [IdleAddrReq EXCEPT !.status = 400]
         ELSE [IdleAddrReq EXCEPT !.status = 404]]
  /\ UNCHANGED <<readVars, checkoutVars, userAddresses, addrNext, nullNames>>

\* The three views unset the defaults of request.user before they save;
\* update validates its payload only after that (is_valid raises 400).
unset_previous_default(s) ==
  /\ areqs[s].pc = "unset"
  /\ userAddresses' = unset_defaults(areqs[s].user)
  /\ areqs' = IF areqs[s].valid
              THEN [areqs EXCEPT ![s].pc = "integrity"]
              ELSE Answer(s, 400)
  /\ UNCHANGED <<readVars, checkoutVars, addrNext, nullNames>>

\* UserAddress.save(), first statement: _ensure_defaults_integrity unsets
\* the defaults of the owner of a row that is saved as the default
save_ensure_defaults_integrity(s) ==
  /\ areqs[s].pc = "integrity"
  /\ userAddresses' = IF areqs[s].instance.is_default_for_shipping
                      THEN unset_defaults(areqs[s].instance.user)
                      ELSE userAddresses
  /\ areqs' = [areqs EXCEPT ![s].pc = "write"]
  /\ UNCHANGED <<readVars, checkoutVars, addrNext, nullNames>>

\* A save whose write reaches the shipping addresses of the owner's orders
save_write_through(s) ==
  /\ areqs[s].pc = "write"
  /\ LET instance == areqs[s].instance
     IN IF \E a \in userAddresses :
             /\ a.id # instance.id
             /\ a.user = instance.user
             /\ a.content = instance.content
        THEN /\ areqs' = Answer(s, 500)
             /\ UNCHANGED <<userAddresses, addrNext, addresses>>
        ELSE IF instance.id = 0
        THEN /\ userAddresses' =
                  userAddresses \cup {[instance EXCEPT !.id = addrNext]}
             /\ addrNext' = addrNext + 1
             /\ UNCHANGED addresses
             /\ areqs' = Answer(s, 201)
        ELSE /\ userAddresses' =
                  {a \in userAddresses : a.id # instance.id} \cup {instance}
             /\ UNCHANGED addrNext
             /\ addresses' =
                  {IF \E o \in orders : /\ o.user = instance.user
                                        /\ o.shipping_address = Some(a.id)
                   THEN [a EXCEPT !.content = instance.content]
                   ELSE a : a \in addresses}
             /\ areqs' = Answer(s, IF areqs[s].op = "destroy" THEN 204 ELSE 200)
  /\ UNCHANGED <<readVars, allowAnon, repo, baskets, orders, signals, reqs, nullNames>>

\* UserAddress.save(), second statement: the row is inserted, or all its
\* columns are written from the instance (inserted again if the row is
\* gone); (user, hash) is unique, a second row of the user with the same
\* content raises IntegrityError, which these views do not catch.
save_write(s) ==
  /\ areqs[s].pc = "write"
  /\ LET instance == areqs[s].instance
     IN IF \E a \in userAddresses :
             /\ a.id # instance.id
             /\ a.user = instance.user
             /\ a.content = instance.content
        THEN /\ areqs' = Answer(s, 500)
             /\ UNCHANGED <<userAddresses, addrNext>>
        ELSE IF instance.id = 0
        THEN /\ userAddresses' =
                  userAddresses \cup {[instance EXCEPT !.id = addrNext]}
             /\ addrNext' = addrNext + 1
             /\ areqs' = Answer(s, 201)
        ELSE /\ userAddresses' =
                  {a \in userAddresses : a.id # instance.id} \cup {instance}
             /\ UNCHANGED addrNext
             /\ areqs' = Answer(s, IF areqs[s].op = "destroy" THEN 204 ELSE 200)
  /\ UNCHANGED <<readVars, checkoutVars, nullNames>>

\* The values of request.data["type"]
AddressTypes == {"shipping", "billing", "other"}

\* One step of one address request, of a user of U with a payload of the
\* contents C, the raw flags F, the validity V and the types T
AddressStep(s, U, C, F, V, T) ==
  \/ NotAuthenticated(s)
  \/ perform_create(s, U, C, F, V)
  \/ UserAddressDetailView_update(s, U, C, F, V)
  \/ destroy(s, U)
  \/ perform_destroy_delete(s)
  \/ perform_destroy_promote(s)
  \/ SetDefaultAddressView_update(s, U, T)
  \/ unset_previous_default(s)
  \/ save_ensure_defaults_integrity(s)
  \/ save_write(s)

\* ------------------------------------------------------ the order views
\* The orders and order lines that exist, the order statuses and the times
\* at which orders were placed; time is counted in half hours
OrderIds == {1, 2}
LineIds == {1, 2}
OrderStatuses == {"Pending", "Finished"}
Dates == {0, 1}

\* timedelta(hours=1)
time_window == 2

\* An Order row
OrderRow(id, r) ==
  [id |-> id, user |-> r.user, status |-> r.status,
   date_placed |-> r.date_placed, show_rating_popup |-> r.show_rating_popup]

\* The Order tables with orders of the users of U (anonymous orders have no
\* user), placed at the dates of D, with the popup flags of F
OrderTables(U, D, F) ==
  UNION {{{OrderRow(i, f[i]) : i \in ids} :
            f \in [ids -> [user : U, status : OrderStatuses,
                           date_placed : D, show_rating_popup : F]]} :
         ids \in SUBSET OrderIds}

\* The OrderLine tables over the orders of a table: every line has an order
LineTables(table) ==
  IF table = {} THEN {{}}
  ELSE {{[id |-> l, order |-> f[l]] : l \in LineIds} :
          f \in [LineIds -> {o.id : o \in table}]}

NoOrder ==
  [id |-> 0, user |-> Anon, status |-> "Pending", date_placed |-> 0,
   show_rating_popup |-> FALSE]

IdlePopupReq ==
  [pc |-> "idle", user |-> Anon, now |-> 0, order |-> NoOrder,
   status |-> 0, response |-> Absent]

NoListing ==
  [view |-> "", user |-> Anon, pk |-> 0, statuses |-> {}, status |-> 0,
   orders |-> {}, lines |-> {}]

\* The database of the order views: the Order table is one of T, with lines
\* if withLines; no request has been made
InitOrderViews(T, withLines) ==
  /\ placedOrders \in T
  /\ orderLines \in IF withLines THEN LineTables(placedOrders) ELSE {{}}
  /\ now = 1
  /\ preqs = [p \in 1..NumPopupReqs |-> IdlePopupReq]
  /\ delivered = [o \in OrderIds |-> 0]
  /\ listing = NoListing

\* Order.objects.filter(user=user, status='Finished')
\*      .order_by('-date_placed').first(): a latest one of them
LastFinished(user) ==
  LET finished == {o \in placedOrders : o.user = user /\ o.status = "Finished"}
  IN {o \in finished : \A x \in finished : x.date_placed <= o.date_placed}

\* The answer of a finished popup request; the client is free for the next
PopupReturn(p, response) ==
  [preqs EXCEPT ![p] = [IdlePopupReq EXCEPT !.status = 200,
                                            !.response = response]]

\* permission_classes = [IsAuthenticated]
LastOrderRatingPopupView_denied(p) ==
  /\ preqs[p].pc = "idle"
  /\ preqs' = [preqs EXCEPT ![p] = [IdlePopupReq EXCEPT !.status = 403]]
  /\ UNCHANGED <<checkoutVars, addrVars, placedOrders, orderLines, now,
                 delivered, listing>>

\* get_object, up to its decision: the latest finished order of the user is
\* read; None is returned without one, and unless its popup flag is set and
\* now - date_placed >= time_window
LastOrderRatingPopupView_get_object(p, U) ==
  /\ preqs[p].pc = "idle"
  /\ \E user \in U :
       IF LastFinished(user) = {}
       THEN preqs' = PopupReturn(p, Absent)
       ELSE \E order \in LastFinished(user) :
              preqs' =
                IF order.show_rating_popup
                   /\ (now - order.date_placed) >= time_window
                THEN [preqs EXCEPT ![p] =
                        [IdlePopupReq EXCEPT !.pc = "get", !.user = user,
                                             !.now = now, !.order = order]]
                ELSE PopupReturn(p, Absent)
  /\ UNCHANGED <<checkoutVars, addrVars, placedOrders, orderLines, now,
                 delivered, listing>>

\* response_order = Order.objects.get(pk=order.pk)
LastOrderRatingPopupView_get(p) ==
  /\ preqs[p].pc = "get"
  /\ \E response_order \in placedOrders :
       /\ response_order.id = preqs[p].order.id
       /\ preqs' = [preqs EXCEPT ![p].pc = "save"]
  /\ UNCHANGED <<checkoutVars, addrVars, placedOrders, orderLines, now,
                 delivered, listing>>

\* order.show_rating_popup = False; order.save(update_fields=[...]) writes
\* that column of the row; response_order is returned
LastOrderRatingPopupView_save(p) ==
  /\ preqs[p].pc = "save"
  /\ LET pk == preqs[p].order.id
     IN /\ placedOrders' =
             {IF o.id = pk THEN [o EXCEPT !.show_rating_popup = FALSE] ELSE o :
                o \in placedOrders}
        /\ delivered' = [delivered EXCEPT ![pk] = @ + 1]
        /\ preqs' = PopupReturn(p, Some(pk))
  /\ UNCHANGED <<checkoutVars, addrVars, orderLines, now, listing>>

\* Time passes
Tick ==
  /\ now < MaxTime
  /\ now' = now + 1
  /\ UNCHANGED <<checkoutVars, addrVars, placedOrders, orderLines, preqs,
                 delivered, listing>>

\* The values of the status query parameters, and the sets of them that a
\* request can carry (getlist('status'))
StatusParams == SUBSET (OrderStatuses \cup {"Cancelled"})

\* A request without a user: IsOwner refuses it (403), and a view without
\* permission classes that filters by the anonymous user fails (500)
Refused(view, user, pk, statuses) ==
  {[NoListing EXCEPT !.view = view, !.user = user, !.pk = pk,
                     !.statuses = statuses, !.status = c] : c \in {403, 500}}

\* An order list over the orders of every user
OrderList_get_queryset_all(U, P) ==
  /\ \E user \in U, statuses \in P :
       IF user = Anon
       THEN listing' \in Refused("OrderList", user, 0, statuses)
       ELSE LET qs == {o \in placedOrders :
                         statuses # {} => o.status \in statuses}
            IN listing' = [NoListing EXCEPT
                             !.view = "OrderList", !.user = user,
                             !.statuses = statuses, !.status = 200,
                             !.orders = {o.id : o \in qs}]
  /\ UNCHANGED <<checkoutVars, addrVars, placedOrders, orderLines, now,
                 preqs, delivered>>

\* GET /orders/: Order.objects.filter(user=user), and
\* filter(status__in=statuses) if there are status parameters
OrderList_get_queryset(U, P) ==
  /\ \E user \in U, statuses \in P :
       IF user = Anon
       THEN listing' \in Refused("OrderList", user, 0, statuses)
       ELSE LET qs == {o \in placedOrders :
                         /\ o.user = user
                         /\ statuses # {} => o.status \in statuses}
            IN listing' = [NoListing EXCEPT
                             !.view = "OrderList", !.user = user,
                             !.statuses = statuses, !.status = 200,
                             !.orders = {o.id : o \in qs}]
  /\ UNCHANGED <<checkoutVars, addrVars, placedOrders, orderLines, now,
                 preqs, delivered>>

\* The user of the order of an order line
order__user(line) ==
  (CHOOSE o \in placedOrders : o.id = line.order).user

\* GET /orders/<pk>/lines/:
\* OrderLine.objects.filter(order_id=pk, order__user=user)
OrderLineList_get_queryset(U) ==
  /\ \E user \in U, pk \in OrderIds :
       IF user = Anon
       THEN listing' \in Refused("OrderLineList", user, pk, {})
       ELSE LET qs == {l \in orderLines :
                         l.order = pk /\ order__user(l) = user}
            IN listing' = [NoListing EXCEPT
                             !.view = "OrderLineList", !.user = user,
                             !.pk = pk, !.status = 200,
                             !.lines = {l.id : l \in qs}]
  /\ UNCHANGED <<checkoutVars, addrVars, placedOrders, orderLines, now,
                 preqs, delivered>>

\* GET /orderlines/<pk>/: get_object (404) over
\* OrderLine.objects.filter(order__user=user)
OrderLineDetail_get_queryset(U) ==
  /\ \E user \in U, pk \in LineIds :
       IF user = Anon
       THEN listing' \in Refused("OrderLineDetail", user, pk, {})
       ELSE LET qs == {l \in orderLines : order__user(l) = user}
                found == \E l \in qs : l.id = pk
            IN listing' = [NoListing EXCEPT
                             !.view = "OrderLineDetail", !.user = user,
                             !.pk = pk,
                             !.status = IF found THEN 200 ELSE 404,
                             !.lines = IF found THEN {pk} ELSE {}]
  /\ UNCHANGED <<checkoutVars, addrVars, placedOrders, orderLines, now,
                 preqs, delivered>>

\* ------------------------------------------------- concurrent checkouts
CheckoutAttrs ==
  {[NoAttrs EXCEPT !.basket = b, !.total = t, !.shipping_address = a] :
     b \in BasketIds, t \in {Absent, Some(0)}, a \in {Absent, Some("home")}}

Init ==
  /\ allowAnon \in BOOLEAN
  /\ repo = [methods |-> <<TaxedMethod, UntaxedMethod>>, default |-> TaxedMethod]
  /\ baskets = [b \in BasketIds |-> BasketRow(b, OneItemBasket)]
  /\ orders = {}
  /\ addresses = {}
  /\ signals = <<>>
  /\ reqs = [r \in ReqIds |-> IdleReq]
  /\ InitAddresses({FALSE})
  /\ InitOrderViews({{}}, FALSE)

Next ==
  \E r \in ReqIds :
    \/ Submit(r, {"u1", Anon}, CheckoutAttrs)
    \/ AccessCheck(r)
    \/ IsValid(r)
    \/ PlaceOrderAddresses(r)
    \/ PlaceOrderCheck(r)
    \/ PlaceOrderInsert(r)
    \/ Freeze(r)
    \/ Respond(r)

Spec == Init /\ [][Next]_vars

\* ------------------------------------------ concurrent address requests
\* The address requests of two clients, each of any user, in every
\* interleaving of their database statements.
InitAddress ==
  /\ allowAnon = TRUE
  /\ repo = [methods |-> <<TaxedMethod, UntaxedMethod>>, default |-> TaxedMethod]
  /\ baskets = [b \in BasketIds |-> BasketRow(b, OneItemBasket)]
  /\ orders = {}
  /\ addresses = {}
  /\ signals = <<>>
  /\ reqs = [r \in ReqIds |-> IdleReq]
  /\ InitAddresses(BOOLEAN)
  /\ InitOrderViews({{}}, FALSE)

NextAddress ==
  \E s \in AddrReqIds :
    AddressStep(s, {"u1"}, Contents, {Absent, Some("true")}, {TRUE}, {"shipping"})

SpecAddress == InitAddress /\ [][NextAddress]_vars

\* ------------------------------------- one client of the address views
\* The address requests of one client, one after the other, of any user and
\* with every payload, beside one checkout of user u1.
AddressCheckoutAttrs ==
  {[NoAttrs EXCEPT !.basket = 1, !.shipping_address = Some("home"),
                   !.billing_address = Some("work")]}

NextAddressBook ==
  \/ Submit(1, {"u1"}, AddressCheckoutAttrs)
  \/ AccessCheck(1)
  \/ IsValid(1)
  \/ PlaceOrderAddresses(1)
  \/ PlaceOrderCheck(1)
  \/ PlaceOrderInsert(1)
  \/ Freeze(1)
  \/ Respond(1)
  \/ AddressStep(1, Users, Contents, RawFlags, BOOLEAN, AddressTypes)

InitAddressBook ==
  /\ allowAnon = TRUE
  /\ repo = [methods |-> <<TaxedMethod, UntaxedMethod>>, default |-> TaxedMethod]
  /\ baskets = [b \in BasketIds |-> BasketRow(b, OneItemBasket)]
  /\ orders = {}
  /\ addresses = {}
  /\ signals = <<>>
  /\ reqs = [r \in ReqIds |-> IdleReq]
  /\ InitAddresses({FALSE})
  /\ InitOrderViews({{}}, FALSE)

SpecAddressBook == InitAddressBook /\ [][NextAddressBook]_vars

\* --------------------------------- one client that deletes its addresses
\* The address requests of one client of user u1, one after the other, over
\* three address contents, beside one checkout of u1: the user can hold
\* three addresses, so that a delete leaves two of them.
DestroyContents == Contents \cup {"away"}

NextDestroy ==
  \/ Submit(1, {"u1"}, AddressCheckoutAttrs)
  \/ AccessCheck(1)
  \/ IsValid(1)
  \/ PlaceOrderAddresses(1)
  \/ PlaceOrderCheck(1)
  \/ PlaceOrderInsert(1)
  \/ Freeze(1)
  \/ Respond(1)
  \/ AddressStep(1, {"u1"}, DestroyContents, {Absent, Some("true")}, {TRUE},
                 {"shipping"})

SpecDestroy == InitAddressBook /\ [][NextDestroy]_vars

\* ------------------------------------------- concurrent popup requests
\* The rating popup requests of the clients, each of any user, in every
\* interleaving of their database statements, over every Order table.
InitPopup ==
  /\ allowAnon = TRUE
  /\ repo = [methods |-> <<TaxedMethod, UntaxedMethod>>, default |-> TaxedMethod]
  /\ baskets = [b \in BasketIds |-> BasketRow(b, OneItemBasket)]
  /\ orders = {}
  /\ addresses = {}
  /\ signals = <<>>
  /\ reqs = [r \in ReqIds |-> IdleReq]
  /\ InitAddresses({FALSE})
  /\ InitOrderViews(OrderTables(Users, Dates, BOOLEAN), FALSE)

NextPopup ==
  \/ \E p \in 1..NumPopupReqs :
       \/ LastOrderRatingPopupView_denied(p)
       \/ LastOrderRatingPopupView_get_object(p, Users)
       \/ LastOrderRatingPopupView_get(p)
       \/ LastOrderRatingPopupView_save(p)
  \/ Tick

SpecPopup == InitPopup /\ [][NextPopup]_vars

\* ------------------------------------------- the order and line views
\* The requests of one client to the order list and the order line views,
\* of any user or none, over every Order and OrderLine table, with orders
\* of the users and orders of anonymous checkouts.
InitOrderRead ==
  /\ allowAnon = TRUE
  /\ repo = [methods |-> <<TaxedMethod, UntaxedMethod>>, default |-> TaxedMethod]
  /\ baskets = [b \in BasketIds |-> BasketRow(b, OneItemBasket)]
  /\ orders = {}
  /\ addresses = {}
  /\ signals = <<>>
  /\ reqs = [r \in ReqIds |-> IdleReq]
  /\ InitAddresses({FALSE})
  /\ InitOrderViews(OrderTables(Actors, {0}, {TRUE}), TRUE)

NextOrderRead ==
  \/ OrderList_get_queryset(Actors, StatusParams)
  \/ OrderLineList_get_queryset(Actors)
  \/ OrderLineDetail_get_queryset(Actors)

SpecOrderRead == InitOrderRead /\ [][NextOrderRead]_vars

\* ------------------------------------ one checkout over all its inputs
\* The intents of one client over every shape of the asserted values.
ValidateAttrs ==
  {[NoAttrs EXCEPT !.basket = b, !.shipping_method_code = c,
                   !.shipping_charge = p, !.total = t, !.vehicle = v,
                   !.shipping_address = Some("home")] :
     b \in BasketIds,
     c \in {Absent, Some("B"), Some("Z")},
     p \in {Absent} \cup {Some(x) : x \in PricePayloads},
     t \in {Absent} \cup {Some(a) : a \in 0..(MaxAmount + 1)},
     v \in {Absent, Some("v1")}}

InitValidate ==
  /\ allowAnon \in BOOLEAN
  /\ repo \in {[methods |-> <<TaxedMethod, UntaxedMethod>>, default |-> d] :
                 d \in {TaxedMethod, UntaxedMethod}}
  /\ baskets \in {[b \in BasketIds |-> BasketRow(b, s)] : s \in BasketShapes}
  /\ orders = {}
  /\ addresses = {}
  /\ signals = <<>>
  /\ reqs = [r \in ReqIds |-> IdleReq]
  /\ InitAddresses({FALSE})
  /\ InitOrderViews({{}}, FALSE)

NextValidate ==
  \/ Submit(1, Actors, ValidateAttrs)
  \/ AccessCheck(1)
  \/ IsValid(1)
  \/ PlaceOrderAddresses(1)
  \/ PlaceOrderCheck(1)
  \/ PlaceOrderInsert(1)
  \/ Freeze(1)
  \/ Respond(1)

SpecValidate == InitValidate /\ [][NextValidate]_vars

\* ------------------------------ one checkout over all its failing checks
\* The intents of one client over every combination of a right or wrong
\* asserted shipping charge, a right or wrong asserted total and an own or
\* foreign vehicle, with the default shipping method.
FailureAttrs ==
  {[NoAttrs EXCEPT !.basket = b, !.shipping_charge = p, !.total = t,
                   !.vehicle = v, !.shipping_address = Some("home")] :
     b \in BasketIds,
     p \in {Absent} \cup
          {Some(x) : x \in {y \in PricePayloads :
                              y.currency = Absent /\ y.tax = Absent}},
     t \in {Absent} \cup {Some(a) : a \in 0..(MaxAmount + 1)},
     v \in {Absent} \cup {Some(x) : x \in Vehicles}}

NextFailures ==
  \/ Submit(1, Actors, FailureAttrs)
  \/ AccessCheck(1)
  \/ IsValid(1)
  \/ PlaceOrderAddresses(1)
  \/ PlaceOrderCheck(1)
  \/ PlaceOrderInsert(1)
  \/ Freeze(1)
  \/ Respond(1)

SpecFailures == InitValidate /\ [][NextFailures]_vars

\* ------------------------- shipping method resolution over all its inputs
\* The methods a repository can hold: two codes, two methods of each code.
RepoMethods ==
  {[code |-> c, name |-> n, charge_excl_tax |-> 1, charge_incl_tax |-> Some(2)] :
     c \in Codes, n \in {"m1", "m2"}}

DefaultMethods ==
  RepoMethods \cup
    {[code |-> "D", name |-> "m0", charge_excl_tax |-> 1, charge_incl_tax |-> Some(2)]}

SeqsUpTo(S, n) == UNION {[1..k -> S] : k \in 0..n}

ResolveAttrs ==
  {[NoAttrs EXCEPT !.shipping_method_code = c] :
     c \in {Absent, Some("A"), Some("B"), Some("Z")}}

InitResolve ==
  /\ allowAnon = TRUE
  /\ repo \in [methods : SeqsUpTo(RepoMethods, MaxCand), default : DefaultMethods]
  /\ baskets = [b \in BasketIds |-> BasketRow(b, OneItemBasket)]
  /\ orders = {}
  /\ addresses = {}
  /\ signals = <<>>
  /\ reqs = [r \in ReqIds |-> IdleReq]
  /\ InitAddresses({FALSE})
  /\ InitOrderViews({{}}, FALSE)

NextResolve ==
  \/ Submit(1, {"u1"}, ResolveAttrs)
  \/ AccessCheck(1)
  \/ IsValid(1)

SpecResolve == InitResolve /\ [][NextResolve]_vars

\* ================================================================ claims
OrdersOf(b) == {o \in orders : o.basket = b}

\* C1 (freeze-once): no basket ever has more than one order, and a checkout
\* request that arrives after a checkout of its basket has succeeded creates
\* no order and, once answered, was answered with an error (401 or 406).
C1_FreezeOnce ==
  /\ \A b \in BasketIds : Cardinality(OrdersOf(b)) <= 1
  /\ \A r \in ReqIds :
       reqs[r].late =>
         /\ reqs[r].order = Absent
         /\ \A o \in orders : o.req # r
         /\ reqs[r].pc = "done" => reqs[r].status \in {401, 406}

\* A late request that passed the access check and validation was answered.
C1_Witness ==
  \E r \in ReqIds :
    /\ reqs[r].late
    /\ reqs[r].pc = "done"
    /\ reqs[r].raised = "ValueError"

\* C2: of the checkout requests that name one basket, at most one is
\* answered 200, whatever the interleaving of their steps.
C2_NeverBothSucceed ==
  \A r1, r2 \in ReqIds :
    /\ r1 # r2
    /\ reqs[r1].attrs.basket = reqs[r2].attrs.basket
    /\ reqs[r1].status = 200
    => reqs[r2].status # 200

\* Two requests raced for one basket: both passed the order number check,
\* one was answered 200 and the other lost at the insert.
C2_Witness ==
  \E r1, r2 \in ReqIds :
    /\ r1 # r2
    /\ reqs[r1].attrs.basket = reqs[r2].attrs.basket
    /\ reqs[r1].status = 200
    /\ reqs[r2].raised = "IntegrityError"

\* C3: order creation and the freeze of the basket are one step (every
\* basket that has an order is frozen), and a frozen basket never changes.
C3_AtomicFreeze ==
  /\ [](\A o \in orders : baskets[o.basket].status = "Frozen")
  /\ [][\A b \in BasketIds :
          baskets[b].status = "Frozen" => baskets'[b] = baskets[b]]_vars

\* C4 (all-or-nothing): a request whose create raised left no order and no
\* order address behind, and its basket is frozen only by another request.
C4_AllOrNothing ==
  \A r \in ReqIds :
    reqs[r].raised # "" =>
      /\ \A o \in orders : o.req # r
      /\ \A a \in addresses : a.req # r
      /\ baskets[reqs[r].attrs.basket].status = "Frozen"
           => \E o \in OrdersOf(reqs[r].attrs.basket) : o.req # r

\* ------------------------------------------- claims about validation
\* What validate computes for the request q, from the rows it reads
ComputedMethod(q) == _shipping_method(repo, q.attrs.shipping_method_code)
ComputedCharge(q) == calculate(ComputedMethod(q), baskets[q.attrs.basket])
ComputedTotal(q) == OrderTotal(baskets[q.attrs.basket], ComputedCharge(q))

AssertedCharges == {Absent} \cup {Some(x) : x \in PricePayloads}
AssertedTotals == {Absent} \cup {Some(a) : a \in 0..(MaxAmount + 1)}

\* C5: the validated shipping charge, total and shipping method are the
\* values the server computed, and every intent that differs from a passing
\* one only in its asserted shipping charge and total and passes as well
\* yields the same three values; every order carries the computed values.
C5_ServerValuesOnly ==
  /\ \A r \in ReqIds :
       reqs[r].pc = "save" =>
         LET q == reqs[r]
             vd == Val(q.result).data[1]
         IN /\ vd.shipping_method = ComputedMethod(q)
            /\ vd.shipping_charge = ComputedCharge(q)
            /\ vd.order_total = ComputedTotal(q)
            /\ \A p \in AssertedCharges, t \in AssertedTotals :
                 LET other == validate(q.user,
                                       [q.attrs EXCEPT !.shipping_charge = p,
                                                       !.total = t],
                                       baskets[q.attrs.basket], repo, allowAnon)
                 IN other.ok =>
                      /\ other.data[1].shipping_charge = vd.shipping_charge
                      /\ other.data[1].order_total = vd.order_total
                      /\ other.data[1].shipping_method = vd.shipping_method
  /\ \A o \in orders :
       /\ o.shipping_charge = calculate(o.shipping_method, baskets[o.basket])
       /\ o.total = OrderTotal(baskets[o.basket], o.shipping_charge)

\* An intent that asserts a shipping charge and a total has passed validation.
C5_Witness ==
  \E r \in ReqIds :
    /\ reqs[r].pc = "save"
    /\ Present(reqs[r].attrs.shipping_charge)
    /\ Present(reqs[r].attrs.total)

\* The tax of a computed price, unknown when the price has no incl_tax
ComputedTax(p) == IF is_tax_known(p) THEN Some(TaxOf(p)) ELSE Absent

\* The payload asserts the computed price: its currency (or the default),
\* its excl_tax and its tax are the computed ones; an incl_tax it carries as
\* well is the computed one, and a payload without any tax information
\* asserts that the tax is unknown.
AssertedEqualsComputed(payload, computed) ==
  /\ PriceSerializer(payload).currency = computed.currency
  /\ payload.excl_tax = computed.excl_tax
  /\ Present(payload.tax) => payload.tax = ComputedTax(computed)
  /\ Present(payload.incl_tax) => payload.incl_tax = computed.incl_tax
  /\ (~Present(payload.tax) /\ ~Present(payload.incl_tax))
       => ~is_tax_known(computed)

\* The request reached the shipping charge check of validate
ReachedChargeCheck(q) ==
  /\ Present(q.result)
  /\ Val(q.result).error \notin {"anonymous_forbidden", "empty_basket"}

\* C6: an intent with an asserted shipping charge passes the shipping charge
\* check if and only if the asserted currency, excl_tax and tax equal the
\* computed ones; a failure reports the asserted and the computed price.
C6_ShippingChargeIff ==
  \A r \in ReqIds :
    LET q == reqs[r] IN
    (ReachedChargeCheck(q) /\ Present(q.attrs.shipping_charge)) =>
      LET res == Val(q.result)
          passed == res.error # "shipping_price_incorrect"
      IN /\ passed <=> AssertedEqualsComputed(Val(q.attrs.shipping_charge),
                                              ComputedCharge(q))
         /\ ~passed => /\ res.posted = Some(PostedPrice(Val(q.attrs.shipping_charge)))
                       /\ res.computed = Some(ComputedCharge(q))

\* The request reached the total check of validate
ReachedTotalCheck(q) ==
  /\ ReachedChargeCheck(q)
  /\ Val(q.result).error # "shipping_price_incorrect"

RECURSIVE scan(_, _, _)
scan(candidates, requested_code, default) ==
  IF candidates = <<>> THEN default
  ELSE IF Head(candidates).code = requested_code THEN Head(candidates)
  ELSE scan(Tail(candidates), requested_code, default)

resolve(candidates, requested_code, default) ==
  IF ~Present(requested_code) THEN default
  ELSE scan(candidates, Val(requested_code), default)

\* C8: the shipping method of every validated intent is the one the
\* reference function resolves: the default without a requested code, else
\* the first candidate with that code, else the default, without any error.
C8_ResolutionIsReference ==
  \A r \in ReqIds :
    Present(reqs[r].result) =>
      /\ Val(reqs[r].result).ok
      /\ Val(reqs[r].result).data[1].shipping_method =
           resolve(repo.methods, reqs[r].attrs.shipping_method_code, repo.default)

\* Two different candidates carry the requested code; the first was taken.
C8_Witness ==
  \E r \in ReqIds :
    /\ Present(reqs[r].result)
    /\ Len(repo.methods) = 2
    /\ repo.methods[1] # repo.methods[2]
    /\ repo.methods[1].code = repo.methods[2].code
    /\ reqs[r].attrs.shipping_method_code = Some(repo.methods[1].code)
    /\ Val(reqs[r].result).data[1].shipping_method = repo.methods[1]

\* C9: with anonymous checkout disabled, every validation of an anonymous
\* request fails with the forbidden error and is answered 406, whatever the
\* rest of the intent, and no order of an anonymous user exists.
C9_AnonymousGate ==
  ~allowAnon =>
    /\ \A r \in ReqIds :
         (reqs[r].user = Anon /\ Present(reqs[r].result)) =>
           /\ ~Val(reqs[r].result).ok
           /\ Val(reqs[r].result).error = "anonymous_forbidden"
           /\ reqs[r].status = 406
           /\ reqs[r].order = Absent
    /\ \A o \in orders : o.user # Anon

\* Everything but the actor is valid: a filled basket, a correct charge
C9_Witness ==
  \E r \in ReqIds :
    /\ ~allowAnon
    /\ reqs[r].user = Anon
    /\ Present(reqs[r].result)
    /\ baskets[reqs[r].attrs.basket].num_items > 0
    /\ Present(reqs[r].attrs.shipping_charge)
    /\ AssertedEqualsComputed(Val(reqs[r].attrs.shipping_charge),
                              ComputedCharge(reqs[r]))

C11_VehicleOwnership ==
  /\ \A r \in ReqIds :
       LET q == reqs[r] IN
       (Present(q.result) /\ Present(q.attrs.vehicle)
          /\ VehicleOwner[Val(q.attrs.vehicle)] # q.user) =>
         /\ ~Val(q.result).ok
         /\ q.status = 406
         /\ q.order = Absent
         /\ (ReachedTotalCheck(q) /\ Val(q.result).error # "total_incorrect")
              => Val(q.result).error = "vehicle_not_owned"
  /\ \A o \in orders :
       Present(o.vehicle) => VehicleOwner[Val(o.vehicle)] = o.user

\* An anonymous intent, valid but for the vehicle of a user, was rejected.
C11_Witness ==
  \E r \in ReqIds :
    /\ Present(reqs[r].result)
    /\ Val(reqs[r].result).error = "vehicle_not_owned"
    /\ reqs[r].user = Anon
    /\ reqs[r].status = 406

\* --------------------------------------- claims about the view's answers
\* The request q may not access the basket it names
Denied(q) ==
  ~request_allows_access_to_basket(q, baskets[q.attrs.basket])

\* The events sent for the request r
SignalsOf(r) == {i \in 1..Len(signals) : signals[i].request = r}

PlacedBy(r) == \E o \in orders : o.req = r /\ reqs[r].order = Some(o.number)

\* C13: every answered request got 200, 401 or 406: 401 exactly when the
\* actor may not access the basket, 200 exactly when access, validation and
\* placement succeeded, and 406 in every other case, failed placements
\* included.
C13_ThreeResponses ==
  \A r \in ReqIds :
    LET q == reqs[r] IN
    q.pc = "done" =>
      /\ q.status \in {200, 401, 406}
      /\ q.status = 401 <=> Denied(q)
      /\ q.status = 200 <=>
           (~Denied(q) /\ Present(q.result) /\ Val(q.result).ok /\ PlacedBy(r))
      /\ (q.raised # "") => q.status = 406

\* C14: a placement that failed on the unique order number is answered with
\* the client error of a conflict, as the ValueError of the number check
\* is, and never as a server error.
C14_UniquenessMapped ==
  \A r \in ReqIds :
    reqs[r].raised = "IntegrityError" =>
      /\ reqs[r].pc = "done"
      /\ reqs[r].status \in {406, 409}
      /\ reqs[r].status # 500

\* ------------------------------------ claims about the reported errors
\* The checks of validate, in the order the code runs them
CheckOrder ==
  <<"anonymous_forbidden", "empty_basket", "shipping_price_incorrect",
    "total_incorrect", "vehicle_not_owned">>

\* The checks that the intent of the request q fails, each taken alone
FailedChecks(q) ==
  {c \in {CheckOrder[i] : i \in 1..Len(CheckOrder)} :
     \/ c = "anonymous_forbidden" /\ q.user = Anon /\ ~allowAnon
     \/ c = "empty_basket" /\ baskets[q.attrs.basket].num_items <= 0
     \/ c = "shipping_price_incorrect"
          /\ Present(q.attrs.shipping_charge)
          /\ ~PriceEq(PostedPrice(Val(q.attrs.shipping_charge)), ComputedCharge(q))
     \/ c = "total_incorrect"
          /\ Present(q.attrs.total)
          /\ q.attrs.total # ComputedTotal(q).incl_tax
     \/ c = "vehicle_not_owned"
          /\ Present(q.attrs.vehicle)
          /\ VehicleOwner[Val(q.attrs.vehicle)] # q.user}

\* The failures that the error response of a validation reports
Reported(res) == IF res.error = "" THEN {} ELSE {res.error}

\* The first check, in the order of the code, that the intent fails
FirstFailed(q) ==
  LET i == CHOOSE n \in 1..Len(CheckOrder) :
             /\ CheckOrder[n] \in FailedChecks(q)
             /\ \A m \in 1..(n - 1) : CheckOrder[m] \notin FailedChecks(q)
  IN CheckOrder[i]

\* C15: the error response of a validation that got past the two gates
\* reports every failure of the intent: an intent with a wrong shipping
\* charge and a wrong total, or with a wrong price and a vehicle of somebody
\* else, is told all of them.
C15_AllFailuresReported ==
  \A r \in ReqIds :
    ReachedChargeCheck(reqs[r]) =>
      FailedChecks(reqs[r]) \subseteq Reported(Val(reqs[r].result))

\* C15 as the code has it: a validation fails exactly when the intent fails
\* some check, it is answered 406 and reports one failure, the first in the
\* order of the checks (anonymous gate, empty basket, shipping charge,
\* total, vehicle).
C15_FirstFailureReported ==
  \A r \in ReqIds :
    Present(reqs[r].result) =>
      LET q == reqs[r]
          res == Val(q.result)
      IN IF FailedChecks(q) = {}
         THEN res.ok /\ Reported(res) = {}
         ELSE /\ ~res.ok
              /\ q.status = 406
              /\ Reported(res) = {FirstFailed(q)}

\* A wrong shipping charge, a wrong total and a vehicle of somebody else in
\* one intent: the answer reports the shipping charge.
C15_Witness ==
  \E r \in ReqIds :
    /\ Present(reqs[r].result)
    /\ {"shipping_price_incorrect", "total_incorrect", "vehicle_not_owned"}
         \subseteq FailedChecks(reqs[r])
    /\ Val(reqs[r].result).error = "shipping_price_incorrect"
    /\ reqs[r].status = 406

\* C16: every request answered 200 has exactly one post-checkout event,
\* which carries its order, its actor and the request; no other request has
\* an event; an event is sent only once the order exists and the basket is
\* frozen.
C16_EventOncePerSuccess ==
  /\ [](\A r \in ReqIds :
          IF reqs[r].status = 200
          THEN /\ Cardinality(SignalsOf(r)) = 1
               /\ \A i \in SignalsOf(r) :
                    /\ Some(signals[i].order) = reqs[r].order
                    /\ signals[i].user = reqs[r].user
                    /\ PlacedBy(r)
          ELSE SignalsOf(r) = {})
  /\ [][Len(signals') > Len(signals) =>
          /\ Len(signals') = Len(signals) + 1
          /\ \E o \in orders :
               /\ o.number = signals'[Len(signals')].order
               /\ o.req = signals'[Len(signals')].request
               /\ baskets[o.basket].status = "Frozen"]_vars

\* One request was answered 200 and has its event, another one 406
C16_Witness ==
  \E r1, r2 \in ReqIds :
    /\ reqs[r1].status = 200
    /\ SignalsOf(r1) # {}
    /\ reqs[r2].status = 406

\* ------------------------------- claims about what validation leaves
\* The shipping charge that a validation computed, where its result shows it
SeenCharge(res) ==
  IF res.ok THEN Some(res.data[1].shipping_charge)
  ELSE IF res.error = "shipping_price_incorrect" THEN res.computed
  ELSE Absent

ValidationFailed(r) == Present(reqs[r].result) /\ ~Val(reqs[r].result).ok

\* C19: the step that answers 406 for invalid data changes no order, basket,
\* order address or event; the rejected request owns no order and no order
\* address; and the intent corrected (without the wrong asserted total)
\* passes validation against the basket as it is.
C19_RejectionLeavesState ==
  /\ [](\A r \in ReqIds :
          ValidationFailed(r) =>
            LET q == reqs[r] IN
            /\ q.status = 406
            /\ q.order = Absent
            /\ \A o \in orders : o.req # r
            /\ \A a \in addresses : a.req # r
            /\ SignalsOf(r) = {}
            /\ Val(q.result).error = "total_incorrect" =>
                 validate(q.user, [q.attrs EXCEPT !.total = Absent],
                          baskets[q.attrs.basket], repo, allowAnon).ok)
  /\ [][\A r \in ReqIds :
          (reqs[r].pc = "is_valid" /\ reqs'[r].status = 406) =>
            /\ orders' = orders
            /\ baskets' = baskets
            /\ addresses' = addresses
            /\ signals' = signals]_vars

\* A request was rejected for its total, and a request that arrived before
\* any checkout of the same basket had succeeded was answered 200.
C19_Witness ==
  \E r1, r2 \in ReqIds :
    /\ ValidationFailed(r1)
    /\ Val(reqs[r1].result).error = "total_incorrect"
    /\ reqs[r2].attrs.basket = reqs[r1].attrs.basket
    /\ reqs[r2].user = reqs[r1].user
    /\ reqs[r2].status = 200

\* ------------------------------------------- claims about the addresses
\* The order address row with the primary key id
AddressRow(id) == CHOOSE a \in addresses : a.id = id

\* The address of kind k of the order o is a row of its own, written by the
\* request that placed o from the payload of that request
OwnSnapshot(o, k, ref, payload) ==
  IF Present(payload)
  THEN /\ Present(ref)
       /\ \E a \in addresses : a.id = Val(ref)
       /\ AddressRow(Val(ref)).kind = k
       /\ AddressRow(Val(ref)).req = o.req
       /\ AddressRow(Val(ref)).content = Val(payload)
       /\ \A o2 \in orders :
            o2 # o => Some(Val(ref)) \notin {o2.shipping_address, o2.billing_address}
  ELSE ref = Absent

\* C17: the shipping and the billing address of every order are rows of
\* their own with the content of the submitted payloads, and no step, of an
\* address request or any other, changes or removes an order address row.
C17_AddressCopyIsolation ==
  /\ [](\A o \in orders :
          /\ OwnSnapshot(o, "shipping", o.shipping_address,
                         reqs[o.req].attrs.shipping_address)
          /\ OwnSnapshot(o, "billing", o.billing_address,
                         reqs[o.req].attrs.billing_address))
  /\ [][\A a \in addresses : a \in addresses']_vars

\* The address book row that the checkout copied from the shipping address
\* was updated or deleted by a later address request; the order is there.
C17_Witness ==
  \E o \in orders :
    /\ Present(o.shipping_address)
    /\ ~\E a \in userAddresses :
          a.user = o.user /\ a.content = AddressRow(Val(o.shipping_address)).content
    /\ areqs[1].status \in {200, 204}

\* The addresses of the user that are flagged as the default for shipping
DefaultsOf(user) ==
  {a \in userAddresses : a.user = user /\ a.is_default_for_shipping}

\* C20: whatever the address requests and however their database
\* statements interleave, every user has at most one address that is the
\* default for shipping.
C20_OneDefaultPerUser ==
  \A user \in Users : Cardinality(DefaultsOf(user)) <= 1

\* ------------------------------------ claims about the address requests
\* The rows of a user in a table of UserAddress rows
RowsOf(rows, user) == {a \in rows : a.user = user}

\* C21: an address request of a user A never acts on an address of another
\* user (the instance it holds is A's own), and no step of the request
\* changes, adds or removes a row of a user other than A.
C21_CrossUserIsolation ==
  /\ [](\A s \in AddrReqIds :
          areqs[s].pc # "idle" =>
            areqs[s].instance.user \in {areqs[s].user, NoInstance.user})
  /\ [][\A s \in AddrReqIds :
          (areqs[s].pc # "idle" /\ areqs'[s] # areqs[s]) =>
            \A B \in Users \ {areqs[s].user} :
              RowsOf(userAddresses', B) = RowsOf(userAddresses, B)]_vars

\* C22: an address request that is answered 400 changes no address row, so
\* the defaults stay where they were.  A rejected request writes at most in
\* the step that answers it: that step leaves the table as it was.
C22_RejectionChangesNothing ==
  [][\A s \in AddrReqIds :
       (areqs'[s] # areqs[s] /\ areqs'[s].pc = "idle" /\ areqs'[s].status = 400)
         => userAddresses' = userAddresses]_vars

\* C23: the delete statement of a delete request removes the address and
\* changes no other row; the request ends there exactly if the deleted
\* address was not the default for shipping.  When the delete of a default
\* is answered and the user still has addresses, exactly one of them is the
\* default for shipping.
C23_DeletePromotes ==
  [][\A s \in AddrReqIds :
       (areqs[s].op = "destroy" /\ areqs'[s] # areqs[s]) =>
         LET user == areqs[s].user
             deleted == {a \in userAddresses : a.id = areqs[s].instance.id}
             remaining == RowsOf(userAddresses', user)
         IN /\ areqs[s].pc = "delete" =>
                 /\ userAddresses' = userAddresses \ deleted
                 /\ (\A d \in deleted : ~d.is_default_for_shipping)
                      => areqs'[s].pc = "idle"
                 /\ (\E d \in deleted : d.is_default_for_shipping)
                      => areqs'[s].pc = "promote"
            /\ (areqs[s].pc # "delete" /\ areqs'[s].pc = "idle") =>
                 (remaining # {} =>
                    Cardinality({a \in remaining : a.is_default_for_shipping}) = 1)
      ]_vars

\* The default was deleted and one of the two addresses the user still has
\* is about to be written as the new default.
C23_Witness ==
  \E s \in AddrReqIds :
    /\ areqs[s].op = "destroy"
    /\ areqs[s].pc = "write"
    /\ areqs[s].instance.is_default_for_shipping
    /\ Cardinality(AddressesOf(areqs[s].user)) >= 2

\* C24: no user has two addresses with the same address name.
C24_UniqueNames ==
  \A a, b \in userAddresses :
    (a # b /\ a.user = b.user) => stored_address_name(a) # stored_address_name(b)

\* ------------------------------------------ claims about the order views
\* C25: no order is returned as a rating popup more than once, an order that
\* was returned has its popup flag unset, and a popup request that returns
\* no order changes no Order row.
C25_PopupAtMostOnce ==
  /\ [](\A o \in placedOrders :
          /\ delivered[o.id] <= 1
          /\ delivered[o.id] = 1 => ~o.show_rating_popup)
  /\ [][\A p \in 1..NumPopupReqs :
          (preqs'[p] # preqs[p] /\ preqs'[p].pc = "idle"
             /\ preqs'[p].response = Absent)
            => placedOrders' = placedOrders]_vars

\* C26: a popup request that goes on to return an order holds a latest
\* finished order of its user, read with its popup flag set, and the order
\* was placed at most one hour before the request.
C26_PopupWindow ==
  \A p \in 1..NumPopupReqs :
    preqs[p].pc # "idle" =>
      LET order == preqs[p].order
      IN /\ order.user = preqs[p].user
         /\ order.status = "Finished"
         /\ \A o \in placedOrders :
              (o.user = preqs[p].user /\ o.status = "Finished")
                => o.date_placed <= order.date_placed
         /\ order.show_rating_popup
         /\ preqs[p].now - order.date_placed <= time_window

\* The orders of the user of the last answer
OwnOrders == {o \in placedOrders : o.user = listing.user}

\* C27: the order list returns exactly the orders of the requesting user,
\* those of the given statuses if status parameters were supplied; the line
\* list returns exactly the lines of the named order if it is an order of
\* the requesting user; the line detail returns only the named line; no
\* answer holds an order of another user or a line of such an order, and a
\* request without a user is answered nothing.
C27_OrderReadIsolation ==
  /\ listing.status # 200 => (listing.orders = {} /\ listing.lines = {})
  /\ listing.status = 200 => listing.user \in Users
  /\ (listing.view = "OrderList" /\ listing.status = 200) =>
       listing.orders =
         {o.id : o \in {x \in OwnOrders :
                          listing.statuses = {} \/ x.status \in listing.statuses}}
  /\ (listing.view = "OrderLineList" /\ listing.status = 200) =>
       listing.lines =
         {l.id : l \in {x \in orderLines :
                          /\ x.order = listing.pk
                          /\ x.order \in {o.id : o \in OwnOrders}}}
  /\ (listing.view = "OrderLineDetail" /\ listing.status = 200) =>
       listing.lines = {listing.pk}
  /\ listing.orders \subseteq {o.id : o \in OwnOrders}
  /\ \A l \in orderLines :
       l.id \in listing.lines => l.order \in {o.id : o \in OwnOrders}

\* The list of a user's orders of one status was answered with an order,
\* while another user has an order of that status.
C27_Witness ==
  /\ listing.view = "OrderList"
  /\ listing.status = 200
  /\ listing.statuses # {}
  /\ listing.orders # {}
  /\ \E o \in placedOrders :
       o.user # listing.user /\ o.status \in listing.statuses

TypeOK ==
  /\ allowAnon \in BOOLEAN
  /\ \A r \in ReqIds : reqs[r].status \in {0, 200, 401, 406, 500}
====
